---------------------------- MODULE Spec2Model ----------------------------
(***************************************************************************)
(* PIIDetector (src/detector_full_Kushagra_Varshney.py): detection of      *)
(* standalone and combinatorial PII in one flat record and the masking of  *)
(* the implicated values.                                                  *)
(*                                                                         *)
(* A Python string is a sequence of one-character strings; a record (a     *)
(* dict, which iterates in insertion order) is a sequence of               *)
(* [key, value] pairs with distinct keys; a value is [type, text] where    *)
(* type is "str", "int" or "null" and text is the characters of the        *)
(* string, the decimal digits of the integer, or empty for None.           *)
(***************************************************************************)
EXTENDS Integers, Sequences, FiniteSets, TLC

VARIABLES record, call, is_pii, pii_fields, redacted_data, raised

vars == <<record, call, is_pii, pii_fields, redacted_data, raised>>

---------------------------------------------------------------------------
(* Characters and the string primitives the code uses.                     *)

DigitChars == <<"0", "1", "2", "3", "4", "5", "6", "7", "8", "9">>

Digit == {DigitChars[i] : i \in 1..10}

Upper == {"A", "B", "C", "D", "E", "F", "G", "H", "I", "J", "K", "L", "M",
          "N", "O", "P", "Q", "R", "S", "T", "U", "V", "W", "X", "Y", "Z"}

Lower == {"a", "b", "c", "d", "e", "f", "g", "h", "i", "j", "k", "l", "m",
          "n", "o", "p", "q", "r", "s", "t", "u", "v", "w", "x", "y", "z"}

\* \w of Python's re on the characters modelled here
WordChar == Digit \cup Upper \cup Lower \cup {"_"}

\* \s of Python's re, and the separators of str.split() and str.strip()
WhiteSpace == {" ", "\t", "\n", "\r"}

\* what "." of Python's re does not match
NewLine == {"\n"}

Min(a, b) == IF a < b THEN a ELSE b

Max(a, b) == IF a > b THEN a ELSE b

All(s, S) == \A i \in 1..Len(s) : s[i] \in S

\* Python: sub in s
Contains(s, sub) ==
    \E i \in 1..(Len(s) - Len(sub) + 1) : SubSeq(s, i, i + Len(sub) - 1) = sub

\* Python: c * n (empty when n <= 0)
Rep(c, n) == [i \in 1..Max(n, 0) |-> c]

\* Python: s[:n], n >= 0
Prefix(s, n) == SubSeq(s, 1, Min(n, Len(s)))

\* Python: s[-n:], n > 0
Suffix(s, n) == SubSeq(s, Max(1, Len(s) - n + 1), Len(s))

RECURSIVE SplitFrom(_, _, _, _)
SplitFrom(s, c, i, cur) ==
    IF i > Len(s) THEN <<cur>>
    ELSE IF s[i] = c THEN <<cur>> \o SplitFrom(s, c, i + 1, <<>>)
    ELSE SplitFrom(s, c, i + 1, Append(cur, s[i]))

\* Python: s.split(c)
Split(s, c) == SplitFrom(s, c, 1, <<>>)

RECURSIVE SplitWsFrom(_, _, _)
SplitWsFrom(s, i, cur) ==
    IF i > Len(s) THEN (IF cur = <<>> THEN <<>> ELSE <<cur>>)
    ELSE IF s[i] \in WhiteSpace
         THEN (IF cur = <<>> THEN <<>> ELSE <<cur>>) \o SplitWsFrom(s, i + 1, <<>>)
    ELSE SplitWsFrom(s, i + 1, Append(cur, s[i]))

\* Python: s.split()
SplitWs(s) == SplitWsFrom(s, 1, <<>>)

RECURSIVE Join(_, _)
\* Python: sep.join(parts)
Join(parts, sep) ==
    IF parts = <<>> THEN <<>>
    ELSE IF Len(parts) = 1 THEN parts[1]
    ELSE parts[1] \o sep \o Join(Tail(parts), sep)

RECURSIVE Strip(_)
\* Python: s.strip(), which float() applies to its argument
Strip(s) ==
    IF s = <<>> THEN s
    ELSE IF s[1] \in WhiteSpace THEN Strip(Tail(s))
    ELSE IF s[Len(s)] \in WhiteSpace THEN Strip(SubSeq(s, 1, Len(s) - 1))
    ELSE s

\* Python: str(value)
Str(value) ==
    IF value.type = "null" THEN <<"N", "o", "n", "e">> ELSE value.text

\* Python: bool(value)
Truthy(value) ==
    CASE value.type = "str" -> value.text # <<>>
      [] value.type = "int" -> value.text # <<"0">>
      [] OTHER -> FALSE

StrValue(s) == [type |-> "str", text |-> s]

IntValue(s) == [type |-> "int", text |-> s]

---------------------------------------------------------------------------
(* f"{float(value):.0f}" (lines 26, 34, 113, 117).  float() accepts        *)
(* [sign] digits [. digits] [(e|E) [sign] digits] around optional blanks   *)
(* and raises ValueError otherwise; the special spellings (inf, nan,       *)
(* digit-group underscores) are outside the modelled alphabet.  The        *)
(* result is computed on digit strings, so no machine integer overflows.   *)
(* It equals Python's for values below 2^53 written with at most 15        *)
(* significant digits, where the conversion to a double is exact enough    *)
(* that ":.0f" rounds the decimal value itself (ties to even).             *)

DigitVal(c) == CHOOSE n \in 0..9 : DigitChars[n + 1] = c

RECURSIVE ToNat(_)
ToNat(ds) ==
    IF ds = <<>> THEN 0 ELSE 10 * ToNat(SubSeq(ds, 1, Len(ds) - 1)) + DigitVal(ds[Len(ds)])

RECURSIVE StripZeros(_)
StripZeros(ds) ==
    IF Len(ds) > 1 /\ ds[1] = "0" THEN StripZeros(Tail(ds)) ELSE ds

RECURSIVE Incr(_)
\* the digit string of n + 1
Incr(ds) ==
    IF ds = <<>> THEN <<"1">>
    ELSE IF ds[Len(ds)] = "9" THEN Append(Incr(SubSeq(ds, 1, Len(ds) - 1)), "0")
    ELSE Append(SubSeq(ds, 1, Len(ds) - 1), DigitChars[DigitVal(ds[Len(ds)]) + 2])

\* Longer exponents are not expanded digit by digit: float() turns them into
\* inf (or 0.0), whose text is no run of 10 or 12 digits either, so they are
\* reported as not ok, which the validators also answer with False.
MaxExpDigits == 3

\* the first place of s holding a character of S, Len(s) + 1 when none does
FirstIndex(s, S) ==
    IF \E i \in 1..Len(s) : s[i] \in S
    THEN CHOOSE i \in 1..Len(s) : s[i] \in S /\ \A j \in 1..(i - 1) : s[j] \notin S
    ELSE Len(s) + 1

NotAFloat == [ok |-> FALSE, neg |-> FALSE, digits |-> <<>>, scale |-> 0]

\* the digits of the mantissa, the length of its fraction and the digits of
\* the exponent make a float when they are digits; a second "." or a second
\* exponent letter is left among them and refuses it
ParseDigits(digits, nfrac, neg, hasExp, eneg, edig) ==
    IF /\ digits # <<>> /\ All(digits, Digit)
       /\ ~hasExp \/ (edig # <<>> /\ All(edig, Digit))
       /\ Len(StripZeros(edig)) <= MaxExpDigits
    THEN [ok |-> TRUE, neg |-> neg, digits |-> digits,
          scale |-> (IF ~hasExp THEN 0
                     ELSE IF eneg THEN 0 - ToNat(edig) ELSE ToNat(edig)) - nfrac]
    ELSE NotAFloat

ParseExponent(ipart, fpart, neg, hasExp, expo) ==
    ParseDigits(ipart \o fpart, Len(fpart), neg, hasExp,
                expo # <<>> /\ expo[1] = "-",
                IF expo # <<>> /\ expo[1] \in {"+", "-"} THEN Tail(expo) ELSE expo)

ParseMantissa(mant, dpos, neg, hasExp, expo) ==
    ParseExponent(SubSeq(mant, 1, dpos - 1), SubSeq(mant, dpos + 1, Len(mant)),
                  neg, hasExp, expo)

ParseSplit(body, epos, neg) ==
    ParseMantissa(SubSeq(body, 1, epos - 1), FirstIndex(SubSeq(body, 1, epos - 1), {"."}),
                  neg, epos <= Len(body), SubSeq(body, epos + 1, Len(body)))

ParseSigned(s) ==
    IF s # <<>> /\ s[1] \in {"+", "-"}
    THEN ParseSplit(Tail(s), FirstIndex(Tail(s), {"e", "E"}), s[1] = "-")
    ELSE ParseSplit(s, FirstIndex(s, {"e", "E"}), FALSE)

\* float(s): [ok, neg, digits, scale], the value (-1)^neg * digits * 10^scale
ParseFloat(s) == ParseSigned(Strip(s))

\* ties go to the even neighbour
RoundsUp(whole, frac) ==
    \/ DigitVal(frac[1]) > 5
    \/ /\ frac[1] = "5"
       /\ ~All(Tail(frac), {"0"}) \/ DigitVal(whole[Len(whole)]) % 2 = 1

Rounded(whole, frac) == IF RoundsUp(whole, frac) THEN Incr(whole) ELSE whole

\* the digits before the last k of padded, rounded by those last k
RoundAt(padded, k) ==
    Rounded(SubSeq(padded, 1, Len(padded) - k),
            SubSeq(padded, Len(padded) - k + 1, Len(padded)))

WithSign(neg, mag) == IF neg THEN <<"-">> \o mag ELSE mag

\* f"{x:.0f}" of the parsed float: the integer nearest to it
FormatF0(f) ==
    IF f.scale >= 0
    THEN WithSign(f.neg, StripZeros(f.digits \o Rep("0", f.scale)))
    ELSE WithSign(f.neg, StripZeros(
            RoundAt(Rep("0", 1 - f.scale - Len(f.digits)) \o f.digits, 0 - f.scale)))

Normalized(f) ==
    IF f.ok THEN [ok |-> TRUE, text |-> FormatF0(f)] ELSE [ok |-> FALSE, text |-> <<>>]

\* the phone and aadhar branch "if 'e+' in str(value): value = f'{float(value):.0f}'":
\* [ok, text]; ok = FALSE is the ValueError the caller's except turns into False.
\* float() of an int is the int; float(None) raises TypeError.
Normalize(value) ==
    IF Contains(Str(value), <<"e", "+">>)
    THEN IF value.type = "null" THEN [ok |-> FALSE, text |-> <<>>]
         ELSE Normalized(ParseFloat(Str(value)))
    ELSE [ok |-> TRUE, text |-> Str(value)]

---------------------------------------------------------------------------
(* The validators: fullmatch of the compiled patterns of __init__, search  *)
(* for the address.                                                        *)

PhoneDigits == 10

AadharDigits == 12

PassportDigits == 7

PincodeDigits == 6

MinTld == 2

\* \b\d{n}\b matches the whole normalised text
IsDigitRun(norm, n) == norm.ok /\ Len(norm.text) = n /\ All(norm.text, Digit)

\* \b\d{10}\b, whole value
is_phone_number(value) == IsDigitRun(Normalize(value), PhoneDigits)

\* \b\d{12}\b, whole value
is_aadhar_number(value) == IsDigitRun(Normalize(value), AadharDigits)

\* \b[A-Z]\d{7}\b, whole value
is_passport_number(value) ==
    LET s == Str(value)
    IN  Len(s) = 1 + PassportDigits /\ s[1] \in Upper /\ All(Tail(s), Digit)

\* \b(?:\w+@\w+|\d{10}@\w+)\b, whole value
is_upi_id(value) ==
    LET s == Str(value)
    IN  \E i \in 1..Len(s) :
            /\ s[i] = "@"
            /\ LET l == SubSeq(s, 1, i - 1)
                   r == SubSeq(s, i + 1, Len(s))
               IN  /\ r # <<>> /\ All(r, WordChar)
                   /\ \/ l # <<>> /\ All(l, WordChar)
                      \/ Len(l) = PhoneDigits /\ All(l, Digit)

EmailLocal == Digit \cup Upper \cup Lower \cup {".", "_", "%", "+", "-"}

EmailDomain == Digit \cup Upper \cup Lower \cup {".", "-"}

\* the class [A-Z|a-z] holds the bar too
EmailTld == Upper \cup Lower \cup {"|"}

\* \b[A-Za-z0-9._%+-]+@[A-Za-z0-9.-]+\.[A-Z|a-z]{2,}\b, whole value; the two
\* \b need a word character first and last
is_email(value) ==
    LET s == Str(value)
    IN  \E i \in 1..Len(s) : \E j \in (i + 1)..Len(s) :
            /\ s[i] = "@" /\ s[j] = "."
            /\ LET l == SubSeq(s, 1, i - 1)
                   d == SubSeq(s, i + 1, j - 1)
                   t == SubSeq(s, j + 1, Len(s))
               IN  /\ l # <<>> /\ All(l, EmailLocal)
                   /\ d # <<>> /\ All(d, EmailDomain)
                   /\ Len(t) >= MinTld /\ All(t, EmailTld)
                   /\ s[1] \in WordChar /\ s[Len(s)] \in WordChar

\* [A-Z][a-z]+
IsNameToken(w) == Len(w) >= 2 /\ w[1] \in Upper /\ All(Tail(w), Lower)

\* ^[A-Z][a-z]+ [A-Z][a-z]+(?:\s[A-Z][a-z]+)*$, whole value: tokens parted by
\* single separators, the first a blank, the later ones any \s
is_full_name(value) ==
    LET s    == Str(value)
        seps == {i \in 1..Len(s) : s[i] \in WhiteSpace}
        cut  == <<0>> \o [n \in 1..Cardinality(seps) |->
                            CHOOSE i \in seps : Cardinality({j \in seps : j < i}) = n - 1]
                      \o <<Len(s) + 1>>
    IN  /\ seps # {}
        /\ s[cut[2]] = " "
        /\ \A n \in 1..(Len(cut) - 1) : IsNameToken(SubSeq(s, cut[n] + 1, cut[n + 1] - 1))

\* .+,\s*.+,\s*\d{6} found anywhere: a comma at i after a character "."
\* matches, \s*.+ between it and a comma at j, then blanks and six digits
is_address(value) ==
    LET s == Str(value)
        Dot(a, b) == a <= b /\ \A x \in a..b : s[x] \notin NewLine
    IN  \E i \in 2..Len(s) : \E j \in (i + 2)..Len(s) : \E d \in (j + 1)..Len(s) :
            /\ s[i] = "," /\ s[j] = ","
            /\ s[i - 1] \notin NewLine
            /\ \E m \in (i + 1)..(j - 1) :
                   /\ \A x \in (i + 1)..(m - 1) : s[x] \in WhiteSpace
                   /\ Dot(m, j - 1)
            /\ \A x \in (j + 1)..(d - 1) : s[x] \in WhiteSpace
            /\ d + PincodeDigits - 1 <= Len(s)
            /\ \A x \in d..(d + PincodeDigits - 1) : s[x] \in Digit

---------------------------------------------------------------------------
(* Detection.                                                              *)

Keys(data) == {data[i].key : i \in 1..Len(data)}

Range(list) == {list[i] : i \in 1..Len(list)}

\* lines 20 and 21
standalone_pii_fields == {"phone", "aadhar", "passport", "upi_id"}

combinatorial_pii_fields == {"name", "email", "address", "ip_address", "device_id"}

\* pii_count >= 2 of line 80
ComboThreshold == 2

\* ComboStep without the "'name_combination' not in pii_elements" test of
\* line 76: the pair is counted at first_name and again at last_name
ComboStep_NoGuard(data, i, acc) ==
    LET key   == data[i].key
        value == data[i].value
        hit(label) == [count |-> acc.count + 1, elements |-> Append(acc.elements, label)]
    IN  IF key = "name" /\ is_full_name(value) THEN hit("name")
        ELSE IF key = "email" /\ is_email(value) THEN hit("email")
        ELSE IF key = "address" /\ is_address(value) THEN hit("address")
        ELSE IF key \in {"ip_address", "device_id"} /\ Truthy(value) THEN hit(key)
        ELSE IF key \in {"first_name", "last_name"} /\ Truthy(value)
             THEN IF "first_name" \in Keys(data) /\ "last_name" \in Keys(data)
                  THEN hit("name_combination")
                  ELSE acc
        ELSE acc

\* one iteration of the loop of has_combinatorial_pii (lines 62-78)
ComboStep(data, i, acc) ==
    LET key   == data[i].key
        value == data[i].value
        hit(label) == [count |-> acc.count + 1, elements |-> Append(acc.elements, label)]
    IN  IF key = "name" /\ is_full_name(value) THEN hit("name")
        ELSE IF key = "email" /\ is_email(value) THEN hit("email")
        ELSE IF key = "address" /\ is_address(value) THEN hit("address")
        ELSE IF key \in {"ip_address", "device_id"} /\ Truthy(value) THEN hit(key)
        ELSE IF key \in {"first_name", "last_name"} /\ Truthy(value)
             THEN IF "first_name" \in Keys(data) /\ "last_name" \in Keys(data)
                  THEN IF "name_combination" \notin Range(acc.elements)
                       THEN hit("name_combination")
                       ELSE acc
                  ELSE acc
        ELSE acc

RECURSIVE ComboLoop(_, _, _)
ComboLoop(data, i, acc) ==
    IF i > Len(data) THEN acc ELSE ComboLoop(data, i + 1, ComboStep(data, i, acc))

\* line 80
ComboResult(r) == [has |-> r.count >= ComboThreshold, elements |-> r.elements]

ComboAbove(r) == [has |-> r.count > ComboThreshold, elements |-> r.elements]

ComboAtLeastOne(r) == [has |-> r.count >= ComboThreshold - 1, elements |-> r.elements]

\* has_combinatorial_pii with "pii_count > 2" for "pii_count >= 2"
has_combinatorial_pii_Above(data) ==
    ComboAbove(ComboLoop(data, 1, [count |-> 0, elements |-> <<>>]))

\* has_combinatorial_pii with "pii_count >= 1" for "pii_count >= 2"
has_combinatorial_pii_AtLeastOne(data) ==
    ComboAtLeastOne(ComboLoop(data, 1, [count |-> 0, elements |-> <<>>]))

\* has_combinatorial_pii(data): (pii_count >= 2, pii_elements)
has_combinatorial_pii(data) ==
    ComboResult(ComboLoop(data, 1, [count |-> 0, elements |-> <<>>]))

\* the test of one key of the standalone loop of detect_pii (lines 87-98)
StandaloneHit(key, value) ==
    \/ key = "phone" /\ is_phone_number(value)
    \/ key = "aadhar" /\ is_aadhar_number(value)
    \/ key = "passport" /\ is_passport_number(value)
    \/ key = "upi_id" /\ is_upi_id(value)

RECURSIVE StandaloneLoop(_, _, _)
StandaloneLoop(data, i, acc) ==
    IF i > Len(data) THEN acc
    ELSE StandaloneLoop(data, i + 1,
            IF StandaloneHit(data[i].key, data[i].value)
            THEN [found |-> TRUE, fields |-> Append(acc.fields, data[i].key)]
            ELSE acc)

\* the list detect_pii returns
detect_pii_fields(data) ==
    StandaloneLoop(data, 1, [found |-> FALSE, fields |-> <<>>]).fields
        \o (IF has_combinatorial_pii(data).has
            THEN has_combinatorial_pii(data).elements ELSE <<>>)

\* detect_pii with "pii_found = has_combo_pii" for "if has_combo_pii: pii_found
\* = True": the combinatorial verdict overwrites the standalone one
detect_pii_ComboOverwrites(data) ==
    [found |-> has_combinatorial_pii(data).has, fields |-> detect_pii_fields(data)]

\* lines 101-105: the combinatorial verdict s adds to the standalone one c
DetectResult(s, c) ==
    IF c.has
    THEN [found |-> TRUE, fields |-> s.fields \o c.elements]
    ELSE [found |-> s.found, fields |-> s.fields]

\* detect_pii(data): (pii_found, pii_fields)
detect_pii(data) ==
    DetectResult(StandaloneLoop(data, 1, [found |-> FALSE, fields |-> <<>>]),
                 has_combinatorial_pii(data))

---------------------------------------------------------------------------
(* Redaction.  redact_value answers [raised, text]: raised is the          *)
(* IndexError of parts[0].split()[-1] on a blank first segment (line 139). *)

Returned(s) == [raised |-> FALSE, text |-> s]

Raised == [raised |-> TRUE, text |-> <<>>]

\* the literal prefix and suffix of lines 143, 141 and 125
UpperKey(key) ==
    IF key = "ip_address" THEN <<"I", "P", "_", "A", "D", "D", "R", "E", "S", "S">>
    ELSE <<"D", "E", "V", "I", "C", "E", "_", "I", "D">>

RedactedPrefix == <<"[", "R", "E", "D", "A", "C", "T", "E", "D", "_">>

RedactedAddress == RedactedPrefix \o <<"A", "D", "D", "R", "E", "S", "S", "]">>

RedactedUpi == <<"R", "E", "D", "A", "C", "T", "E", "D", "_", "U", "P", "I">>

\* the X runs and the kept ends of lines 114 and 118
MaskRun == 6

PhoneKeep == 2

AadharKeep == 3

\* the kept start of the local part, lines 124 and 128
LocalKeep == 2

\* len(parts) >= 3 of line 138
MinAddressParts == 3

\* value_str[:keep] + "X" * 6 + value_str[-keep:]
MaskEnds(v, keep) == Prefix(v, keep) \o Rep("X", MaskRun) \o Suffix(v, keep)

\* name[0] + "X" * (len(name) - 1)
MaskWord(w) == <<w[1]>> \o Rep("X", Len(w) - 1)

\* lines 137-141
RedactAddress(value_str) ==
    LET parts == Split(value_str, ",")
    IN  IF Len(parts) >= MinAddressParts
        THEN IF " " \in Range(parts[1])
             THEN LET words == SplitWs(parts[1])
                  IN  IF words = <<>> THEN Raised
                      ELSE Returned(Join(<<<<"X", "X", "X", " ">> \o words[Len(words)]>>
                                         \o Tail(parts), <<",">>))
             ELSE Returned(Join(<<<<"X", "X", "X">>>> \o Tail(parts), <<",">>))
        ELSE Returned(RedactedAddress)

\* redact_value(key, value), lines 107-145
redact_value(key, value) ==
    LET value_str == Str(value)
    IN  IF key = "phone" /\ is_phone_number(value)
        THEN Returned(MaskEnds(Normalize(value).text, PhoneKeep))
        ELSE IF key = "aadhar" /\ is_aadhar_number(value)
        THEN Returned(MaskEnds(Normalize(value).text, AadharKeep))
        ELSE IF key = "passport" /\ is_passport_number(value)
        THEN Returned(<<value_str[1]>> \o Rep("X", Len(value_str) - 2)
                      \o <<value_str[Len(value_str)]>>)
        ELSE IF key = "upi_id" /\ is_upi_id(value)
        THEN IF "@" \in Range(value_str)
             THEN LET parts == Split(value_str, "@")
                  IN  Returned(Prefix(parts[1], LocalKeep)
                               \o Rep("X", Len(parts[1]) - LocalKeep)
                               \o <<"@">> \o parts[2])
             ELSE Returned(RedactedUpi)
        ELSE IF key = "email" /\ is_email(value)
        THEN LET parts == Split(value_str, "@")
                 username == IF Len(parts[1]) > LocalKeep
                             THEN Prefix(parts[1], LocalKeep)
                                  \o Rep("X", Len(parts[1]) - LocalKeep)
                             ELSE <<"X", "X">>
             IN  Returned(username \o <<"@">> \o parts[2])
        ELSE IF key = "name" /\ is_full_name(value)
        THEN LET names == SplitWs(value_str)
             IN  Returned(Join([n \in 1..Len(names) |-> MaskWord(names[n])], <<" ">>))
        ELSE IF key \in {"first_name", "last_name"}
        THEN Returned(IF Len(value_str) > 1 THEN MaskWord(value_str) ELSE <<"X">>)
        ELSE IF key = "address" /\ is_address(value)
        THEN RedactAddress(value_str)
        ELSE IF key \in {"ip_address", "device_id"}
        THEN Returned(RedactedPrefix \o UpperKey(key) \o <<"]">>)
        ELSE Returned(value_str)

\* the condition of lines 153-158
ToRedact(key, found, fields) ==
    /\ found
    /\ \/ key \in Range(fields)
       \/ key \in {"first_name", "last_name"} /\ "name_combination" \in Range(fields)
       \/ key = "name" /\ "name" \in Range(fields)
       \/ key = "email" /\ "email" \in Range(fields)
       \/ key = "address" /\ "address" \in Range(fields)
       \/ key \in {"ip_address", "device_id"} /\ key \in Range(fields)

\* lines 151-163: out[i] is what redact_value answered for field i
ProcessResult(record_data, d, out) ==
    IF \E i \in 1..Len(record_data) : out[i].raised
    THEN [raised |-> TRUE, data |-> <<>>, is_pii |-> d.found, pii_fields |-> d.fields]
    ELSE [raised |-> FALSE,
          data |-> [i \in 1..Len(record_data) |->
                      IF ToRedact(record_data[i].key, d.found, d.fields)
                      THEN [key |-> record_data[i].key, value |-> StrValue(out[i].text)]
                      ELSE record_data[i]],
          is_pii |-> d.found,
          pii_fields |-> d.fields]

ProcessWith(record_data, d) ==
    ProcessResult(record_data, d,
        [i \in 1..Len(record_data) |->
            IF ToRedact(record_data[i].key, d.found, d.fields)
            THEN redact_value(record_data[i].key, record_data[i].value)
            ELSE Returned(<<>>)])

\* process_record(record_data): [raised, data, is_pii, pii_fields]; is_pii and
\* pii_fields are its locals of line 149, data the dict it returns; a raise of
\* redact_value leaves process_record, and nothing is returned
process_record(record_data) == ProcessWith(record_data, detect_pii(record_data))

---------------------------------------------------------------------------
(* The records handed to the detector: what json.loads makes of one        *)
(* data_json cell (line 174), a dict of distinct keys in the order of the  *)
(* text.  Each key draws its value from a few shapes its branch tells      *)
(* apart; "city" stands for every key the detector does not know.          *)

NullValue == [type |-> "null", text |-> <<>>]

KeyOrder == <<"phone", "aadhar", "passport", "upi_id", "name", "email", "address",
              "ip_address", "device_id", "first_name", "last_name", "city">>

Reverse(s) == [i \in 1..Len(s) |-> s[Len(s) + 1 - i]]

\* every pair of keys is met in both orders
Orders == {KeyOrder, Reverse(KeyOrder)}

\* the most fields of one record
MaxFields == 3

Candidates(key) ==
    CASE key = "phone" ->
            <<StrValue(<<"9", "8", "7", "6", "5", "4", "3", "2", "1", "0">>),
             IntValue(<<"9", "8", "7", "6", "5", "4", "3", "2", "1", "0">>),
             StrValue(<<"9", ".", "8", "7", "6", "5", "e", "+", "9">>),
             StrValue(<<"9", ".", "8", "7", "6", "5", "E", "+", "9">>),
             StrValue(<<"9", "8", "7", "6", "5">>)>>
      [] key = "aadhar" ->
            <<StrValue(<<"9", ".", "8", "7", "6", "5", "4", "3", "2", "1", "0", "1", "e", "+", "1", "1">>),
             StrValue(<<"9", ".", "8", "7", "6", "5", "4", "3", "2", "1", "0", "1", "E", "+", "1", "1">>),
             StrValue(<<"1", "2", "3", "4", "5", "6", "7", "8", ".", "9", "0", "1", "2">>)>>
      [] key = "passport" ->
            <<StrValue(<<"A", "1", "2", "3", "4", "5", "6", "7">>),
             StrValue(<<"a", "1", "2", "3">>)>>
      [] key = "upi_id" ->
            <<StrValue(<<"j", "a", "n", "e", "@", "y", "b", "l">>),
             StrValue(<<"a", "b", "@", "y", "b", "l">>),
             StrValue(<<"a", "@", "b">>),
             StrValue(<<"j", "a", "n", "e">>)>>
      [] key = "name" ->
            <<StrValue(<<"J", "a", "n", "e", " ", "D", "o", "e">>),
             StrValue(<<"j", "a", "n", "e">>)>>
      [] key = "email" ->
            <<StrValue(<<"j", "a", "n", "e", "@", "e", "x", ".", "c", "o">>),
             StrValue(<<"j", "d", "@", "e", "x", ".", "c", "o">>),
             StrValue(<<"X", "X", "@", "e", "x", ".", "c", "o">>),
             StrValue(<<"j", "a", "n", "e", "@", "e", "x">>)>>
      [] key = "address" ->
            <<StrValue(<<"1", " ", "M", "a", "i", "n", " ", "S", "t", ",", " ", "P", "u", "n", "e", ",", " ", "1", "2", "3", "4", "5", "6">>),
             StrValue(<<" ", ",", " ", "P", "u", "n", "e", ",", " ", "1", "2", "3", "4", "5", "6">>),
             StrValue(<<"X", "X", "X", " ", "S", "t", ",", " ", "P", "u", "n", "e", ",", " ", "1", "2", "3", "4", "5", "6">>),
             StrValue(<<"P", "u", "n", "e", " ", "1", "2", "3", "4", "5", "6">>)>>
      [] key = "ip_address" ->
            <<StrValue(<<"1", "0", ".", "0", ".", "0", ".", "1">>),
             StrValue(<<>>)>>
      [] key = "device_id" ->
            <<StrValue(<<"a", "b", "c">>),
             IntValue(<<"0">>),
             IntValue(<<"7">>)>>
      [] key = "first_name" ->
            <<StrValue(<<"J", "a", "n", "e">>),
             StrValue(<<"X">>),
             StrValue(<<>>)>>
      [] key = "last_name" ->
            <<StrValue(<<"D", "o", "e">>),
             StrValue(<<>>)>>
      [] key = "city" ->
            <<StrValue(<<"P", "u", "n", "e">>),
             IntValue(<<"4", "2">>),
             NullValue>>


\* the sets of at most MaxFields positions of a key order
FieldSets == {P \in SUBSET (1..Len(KeyOrder)) : Cardinality(P) <= MaxFields}

\* the positions of P in rising order
Sorted(P) ==
    [n \in 1..Cardinality(P) |-> CHOOSE i \in P : Cardinality({j \in P : j < i}) = n - 1]

\* the choices of one candidate for each position of P
Choices(order, P) ==
    {c \in [P -> 1..Len(Candidates("phone"))] : \A i \in P : c[i] <= Len(Candidates(order[i]))}

\* the record holding the keys of order at the positions P, valued by choice c
RecordOf(order, P, c) ==
    LET at == Sorted(P)
    IN  [n \in 1..Len(at) |->
            [key |-> order[at[n]], value |-> Candidates(order[at[n]])[c[at[n]]]]]

---------------------------------------------------------------------------
(* The state machine: one record, and one call of a method of the          *)
(* detector on it.                                                         *)

\* the locals and the result of process_record after the call
Returns(r) ==
    /\ is_pii' = r.is_pii
    /\ pii_fields' = r.pii_fields
    /\ redacted_data' = r.data
    /\ raised' = r.raised

Init ==
    /\ \E o \in Orders : \E P \in FieldSets : \E c \in Choices(o, P) :
           record = RecordOf(o, P, c)
    /\ call = "none"
    /\ is_pii = FALSE
    /\ pii_fields = <<>>
    /\ redacted_data = <<>>
    /\ raised = FALSE

HasCombinatorialPii ==
    /\ call = "none"
    /\ call' = "has_combinatorial_pii"
    /\ is_pii' = has_combinatorial_pii(record).has
    /\ pii_fields' = has_combinatorial_pii(record).elements
    /\ UNCHANGED <<record, redacted_data, raised>>

DetectPii ==
    /\ call = "none"
    /\ call' = "detect_pii"
    /\ is_pii' = detect_pii(record).found
    /\ pii_fields' = detect_pii(record).fields
    /\ UNCHANGED <<record, redacted_data, raised>>

ProcessRecord ==
    /\ call = "none"
    /\ call' = "process_record"
    /\ Returns(process_record(record))
    /\ UNCHANGED record

Next == HasCombinatorialPii \/ DetectPii \/ ProcessRecord

Spec == Init /\ [][Next]_vars

---------------------------------------------------------------------------
(* Vocabulary of the properties.                                           *)

Called(op) == call = op

Has(data, key) == key \in Keys(data)

ValueOf(data, key) == data[CHOOSE i \in 1..Len(data) : data[i].key = key].value

\* a field of the record that one of the standalone validators accepts
ValidStandalone(data, i) ==
    data[i].key \in standalone_pii_fields /\ StandaloneHit(data[i].key, data[i].value)

\* the first_name and last_name pair as the specification counts it: both
\* present, both non-empty
PairPresent(data) ==
    /\ Has(data, "first_name") /\ Truthy(ValueOf(data, "first_name"))
    /\ Has(data, "last_name") /\ Truthy(ValueOf(data, "last_name"))

\* the labels of the validated combinatorial elements of a record
MatchedLabels(data) ==
    {k \in combinatorial_pii_fields :
        /\ Has(data, k)
        /\ CASE k = "name" -> is_full_name(ValueOf(data, k))
             [] k = "email" -> is_email(ValueOf(data, k))
             [] k = "address" -> is_address(ValueOf(data, k))
             [] OTHER -> Truthy(ValueOf(data, k))}
    \cup (IF PairPresent(data) THEN {"name_combination"} ELSE {})

\* the field is implicated by the list of labels
Implicated(key, fields) ==
    \/ key \in Range(fields)
    \/ key \in {"first_name", "last_name"} /\ "name_combination" \in Range(fields)

\* how often a label stands in a list
CountOf(label, list) == Cardinality({i \in 1..Len(list) : list[i] = label})

HasDuplicate(list) == \E i, j \in 1..Len(list) : i < j /\ list[i] = list[j]

\* first letter, then one X for each remaining character
FirstLetterMask(s) == [i \in 1..Len(s) |-> IF i = 1 THEN s[1] ELSE "X"]

Jane == <<"J", "a", "n", "e">>

Doe == <<"D", "o", "e">>

---------------------------------------------------------------------------
(* The properties.                                                         *)

\* C1: every record holding a phone, aadhar, passport or upi_id that its
\* validator accepts is PII for detect_pii, and the list of implicated fields
\* names that field, whatever the other fields and the order of the keys.
C1_StandaloneIsPii ==
    Called("detect_pii") =>
        \A i \in 1..Len(record) :
            ValidStandalone(record, i) =>
                is_pii /\ record[i].key \in Range(pii_fields)

\* C1 witness: a validated standalone field met after a combinatorial one
C1_Witness ==
    /\ Called("detect_pii")
    /\ Len(record) >= 2
    /\ record[1].key \in combinatorial_pii_fields
    /\ \E i \in 2..Len(record) : ValidStandalone(record, i)
    /\ ~has_combinatorial_pii(record).has

\* C2: a record with no standalone field and exactly one validated
\* combinatorial element is not PII, and process_record returns it as it is.
C2_OneElementNotPii ==
    (/\ Called("process_record")
     /\ Keys(record) \cap standalone_pii_fields = {}
     /\ Cardinality(MatchedLabels(record)) = 1)
        => ~is_pii /\ ~raised /\ redacted_data = record

\* C2 with the pair counted as has_combinatorial_pii counts it (the list it
\* returns holds one label): this much of C2 the code does
C2_OneCountedNotPii ==
    (/\ Called("process_record")
     /\ Keys(record) \cap standalone_pii_fields = {}
     /\ Len(has_combinatorial_pii(record).elements) = 1)
        => ~is_pii /\ ~raised /\ redacted_data = record

\* C3: a record with two or more validated combinatorial elements is PII for
\* detect_pii, and the implicated list holds the label of each of them (next
\* to the standalone labels).
C3_TwoElementsArePii ==
    (Called("detect_pii") /\ Cardinality(MatchedLabels(record)) >= ComboThreshold)
        => /\ is_pii
           /\ MatchedLabels(record) \subseteq Range(pii_fields)
           /\ \A i \in 1..Len(record) :
                  ValidStandalone(record, i) => record[i].key \in Range(pii_fields)

\* C3 witness: two combinatorial elements beside a validated standalone field
C3_Witness ==
    /\ Called("detect_pii")
    /\ Cardinality(MatchedLabels(record)) >= ComboThreshold
    /\ \E i \in 1..Len(record) : ValidStandalone(record, i)

\* the records whose only fields are a non-empty first_name and last_name
OnlyNamePair == Keys(record) = {"first_name", "last_name"} /\ PairPresent(record)

\* the records holding a non-empty first_name and last_name and a truthy
\* device_id, and nothing else
NamePairAndDevice ==
    /\ Keys(record) = {"first_name", "last_name", "device_id"}
    /\ PairPresent(record)
    /\ Truthy(ValueOf(record, "device_id"))

\* the first_name and last_name of the returned record are masked to the
\* first letter and one X for each remaining character
NamesMasked ==
    \A i \in 1..Len(record) :
        record[i].key \in {"first_name", "last_name"} =>
            redacted_data[i] = [key |-> record[i].key,
                                value |-> StrValue(FirstLetterMask(Str(record[i].value)))]

C4_MaskedWitness ==
    /\ Called("process_record")
    /\ NamePairAndDevice
    /\ \E i, j \in 1..Len(record) :
          /\ redacted_data[i] = [key |-> "first_name",
                                 value |-> StrValue(<<"J", "X", "X", "X">>)]
          /\ redacted_data[j] = [key |-> "last_name",
                                 value |-> StrValue(<<"D", "X", "X">>)]

\* the fields of the record that stay: those the implicated list leaves out
FrameKept ==
    /\ Len(redacted_data) = Len(record)
    /\ \A i \in 1..Len(record) :
          /\ redacted_data[i].key = record[i].key
          /\ ~Implicated(record[i].key, pii_fields) => redacted_data[i] = record[i]

\* C5: for every record process_record returns a record of the same keys in
\* which every field that is not implicated keeps its value and its type.
C5_FramePreserved == Called("process_record") => ~raised /\ FrameKept

\* C5 for the calls that return: whenever process_record returns a record,
\* it has the keys of the input and the fields not implicated are untouched
C5_FrameWhenReturned == (Called("process_record") /\ ~raised) => FrameKept

\* C6: redaction never fails: process_record never raises out of redact_value,
\* and each implicated field of a PII record gets a string.
C6_RedactionNeverRaises ==
    Called("process_record") =>
        /\ ~raised
        /\ \A i \in 1..Len(record) :
              (is_pii /\ Implicated(record[i].key, pii_fields)) =>
                  ~redact_value(record[i].key, record[i].value).raised

\* a numeric string in scientific notation: digits, an optional fraction, e or
\* E, a plus sign, digits
SciNotation(value) ==
    /\ value.type = "str"
    /\ Contains(value.text, <<"e", "+">>) \/ Contains(value.text, <<"E", "+">>)
    /\ ParseFloat(value.text).ok

\* its plain integer digit string
Expanded(value) == FormatF0(ParseFloat(value.text))

\* the phone or aadhar at i is a scientific-notation string that expands to
\* the digits its field wants
SciField(i, key, digits) ==
    /\ record[i].key = key
    /\ SciNotation(record[i].value)
    /\ Len(Expanded(record[i].value)) = digits
    /\ All(Expanded(record[i].value), Digit)

\* the mask of the expanded digit string: keep first, six X, keep last
SciMasked(i, keep) ==
    LET e == Expanded(record[i].value)
    IN  /\ is_pii
        /\ redacted_data[i].value
              = StrValue(Prefix(e, keep) \o Rep("X", MaskRun) \o Suffix(e, keep))

\* C7: a phone or aadhar given in scientific notation (9.8765E+9,
\* 9.8765432101E+11) is expanded to its digit string; with 10 or 12 digits the
\* field validates, the record is PII and the mask is that of the expansion.
C7_SciNotationNormalized ==
    (Called("process_record") /\ ~raised) =>
        \A i \in 1..Len(record) :
            /\ SciField(i, "phone", PhoneDigits) => SciMasked(i, PhoneKeep)
            /\ SciField(i, "aadhar", AadharDigits) => SciMasked(i, AadharKeep)

\* C7 for the strings written with a lower-case e, which is all line 25 and
\* line 33 look for
C7_LowerCaseNormalized ==
    (Called("process_record") /\ ~raised) =>
        \A i \in 1..Len(record) :
            Contains(Str(record[i].value), <<"e", "+">>) =>
                /\ SciField(i, "phone", PhoneDigits) => SciMasked(i, PhoneKeep)
                /\ SciField(i, "aadhar", AadharDigits) => SciMasked(i, AadharKeep)

\* C8: the first_name and last_name pair adds one name_combination to the
\* count when both are present and both non-empty, whichever comes first, and
\* nothing when either is absent or empty.
C8_PairCountsWhenBothNonEmpty ==
    Called("has_combinatorial_pii") =>
        CountOf("name_combination", pii_fields) = (IF PairPresent(record) THEN 1 ELSE 0)

\* C8 as far as the code goes: the pair is counted at most once, and exactly
\* when both keys are present and at least one of the two values is non-empty
C8_PairCountsWhenOneNonEmpty ==
    Called("has_combinatorial_pii") =>
        CountOf("name_combination", pii_fields)
            = (IF /\ Has(record, "first_name") /\ Has(record, "last_name")
                  /\ \/ Truthy(ValueOf(record, "first_name"))
                     \/ Truthy(ValueOf(record, "last_name"))
               THEN 1 ELSE 0)

\* C9 as stated: among the records the detector may be handed, some record
\* makes detect_pii return a list that holds a label twice.
C9_SomeRecordRepeatsLabel ==
    Called("none") =>
        \E o \in Orders : \E P \in FieldSets : \E c \in Choices(o, P) :
            HasDuplicate(detect_pii(RecordOf(o, P, c)).fields)

\* C9 amended: the implicated list of detect_pii is an ordered list in which
\* no label stands twice: standalone labels come first, combinatorial labels
\* after them, and the two kinds share no label.
C9_NoLabelTwice ==
    Called("detect_pii") =>
        /\ ~HasDuplicate(pii_fields)
        /\ \A i, j \in 1..Len(pii_fields) :
              (pii_fields[i] \in standalone_pii_fields
               /\ pii_fields[j] \notin standalone_pii_fields) => i < j

\* C9 witness: the standalone check and the combinatorial check both added
\* labels
C9_Witness ==
    /\ Called("detect_pii")
    /\ \E i \in 1..Len(record) : ValidStandalone(record, i)
    /\ \E i, j \in 1..Len(pii_fields) :
          /\ pii_fields[i] \in standalone_pii_fields
          /\ pii_fields[j] \in combinatorial_pii_fields

\* C10: in a record classified PII every implicated field is emitted changed:
\* none leaves process_record equal to the string form of its input.
C10_ImplicatedNeverUnmasked ==
    (Called("process_record") /\ is_pii /\ ~raised) =>
        \A i \in 1..Len(record) :
            Implicated(record[i].key, pii_fields) =>
                redacted_data[i].value.text # Str(record[i].value)

=============================================================================
